---------------------------- MODULE Spec2Model ----------------------------
(***************************************************************************)
(* A model of the padded Bloom filter cascade of crset-cascade:            *)
(*   src/src/lib/bloom-filter-cascade.ts  constructBFC, isInBFC,           *)
(*                                        toDataHexString,                 *)
(*                                        fromDataHexString                *)
(*   src/unnamed/part_000                 class BloomFilter                *)
(*   src/unnamed/part_001                 the string/set utilities         *)
(*                                                                         *)
(* A JavaScript string is a sequence of one-character strings, a Buffer a  *)
(* sequence of bytes (0..255), an Int32Array word the set of the indexes   *)
(* (0..31) of its one-bits.  SHA-256 is an unknown function: the 32-bit    *)
(* value getHashPositions reads from a digest is drawn when a string is    *)
(* hashed first and remembered in sha.                                     *)
(***************************************************************************)
EXTENDS Integers, Sequences, FiniteSets, TLC

(***************************************************************************)
(* Bounds of the model.                                                    *)
(***************************************************************************)
\* rHat ranges over 0..MaxRHat
MaxRHat == 1
\* the number of distinct identifiers a caller may pass in
NumIds == 3
\* bytes of an identifier (the program's identifiers have 32)
IdBytes == 1
\* 32-bit words of the salt (the program's salt has 8: 32 bytes)
SaltWords == 1
\* the values a digest window may take: 0..HashRange-1
HashRange == 2
\* the filters and digest values of the layering loop are kept for the
\* levels 1..MaxLevel; past them the loop is followed for its sets only
MaxLevel == 3

(***************************************************************************)
(* Strings.                                                                *)
(***************************************************************************)
RECURSIVE Repeat(_, _)
\* String.prototype.repeat for a one-character string: n copies of c
Repeat(c, n) == IF n <= 0 THEN <<>> ELSE <<c>> \o Repeat(c, n - 1)

\* String.prototype.padStart(len, c)
PadStart(s, len, c) == Repeat(c, len - Len(s)) \o s

RECURSIVE ToString2(_)
\* Number.prototype.toString(2) of a non-negative integer
ToString2(n) ==
    IF n < 2 THEN <<IF n = 0 THEN "0" ELSE "1">>
    ELSE ToString2(n \div 2) \o <<IF n % 2 = 0 THEN "0" ELSE "1">>

\* byte.toString(2).padStart(8, "0")
ByteToBinary(byte) == PadStart(ToString2(byte), 8, "0")

RECURSIVE BytesToBinary(_)
\* Array.from(bytes).map(byte => byte.toString(2).padStart(8, "0")).join("")
BytesToBinary(bytes) ==
    IF bytes = <<>> THEN <<>>
    ELSE ByteToBinary(Head(bytes)) \o BytesToBinary(Tail(bytes))

\* the digits of toString(16)
HexDigits ==
    <<"0", "1", "2", "3", "4", "5", "6", "7", "8", "9", "a", "b", "c", "d",
      "e", "f">>

\* byte.toString(16).padStart(2, "0"), which is also a byte of
\* Buffer.toString("hex")
ByteToHex(byte) == <<HexDigits[(byte \div 16) + 1], HexDigits[(byte % 16) + 1]>>

RECURSIVE BytesToHex(_)
\* Array.from(bytes).map(byte => byte.toString(16).padStart(2, "0")).join("")
BytesToHex(bytes) ==
    IF bytes = <<>> THEN <<>>
    ELSE ByteToHex(Head(bytes)) \o BytesToHex(Tail(bytes))

\* cascadeLevel.toString(2).padStart(8, "0")
LevelTag(level) == PadStart(ToString2(level), 8, "0")

\* hexToBinMap[char] || "0000"
HexToBinMap(char) ==
    CASE char = "0" -> <<"0", "0", "0", "0">>
      [] char = "1" -> <<"0", "0", "0", "1">>
      [] char = "2" -> <<"0", "0", "1", "0">>
      [] char = "3" -> <<"0", "0", "1", "1">>
      [] char = "4" -> <<"0", "1", "0", "0">>
      [] char = "5" -> <<"0", "1", "0", "1">>
      [] char = "6" -> <<"0", "1", "1", "0">>
      [] char = "7" -> <<"0", "1", "1", "1">>
      [] char = "8" -> <<"1", "0", "0", "0">>
      [] char = "9" -> <<"1", "0", "0", "1">>
      [] char \in {"a", "A"} -> <<"1", "0", "1", "0">>
      [] char \in {"b", "B"} -> <<"1", "0", "1", "1">>
      [] char \in {"c", "C"} -> <<"1", "1", "0", "0">>
      [] char \in {"d", "D"} -> <<"1", "1", "0", "1">>
      [] char \in {"e", "E"} -> <<"1", "1", "1", "0">>
      [] char \in {"f", "F"} -> <<"1", "1", "1", "1">>
      [] OTHER -> <<"0", "0", "0", "0">>

RECURSIVE MapHexToBin(_)
\* cleanHex.split("").map(...).join("")
MapHexToBin(s) ==
    IF s = <<>> THEN <<>> ELSE HexToBinMap(Head(s)) \o MapHexToBin(Tail(s))

\* hexToBinary: the "0x" prefix, when present, is dropped first
hexToBinary(hex) ==
    LET cleanHex == IF Len(hex) >= 2 /\ hex[1] = "0" /\ hex[2] = "x"
                    THEN SubSeq(hex, 3, Len(hex)) ELSE hex
    IN  MapHexToBin(cleanHex)

\* convertSetToBinary
convertSetToBinary(set) == {hexToBinary(id) : id \in set}

(***************************************************************************)
(* The identifiers and random values of the model.                         *)
(***************************************************************************)
\* the last two hex digits of the identifiers a caller may pass in
HexTails ==
    <<  <<"0", "3">>, <<"a", "5">>, <<"0", "F">>, <<"7", "c">>,
        <<"e", "1">>, <<"9", "0">>  >>

\* the hex identifiers a caller may pass in: 2 * IdBytes hex digits each
HexIdPool ==
    {Repeat("0", 2 * (IdBytes - 1)) \o HexTails[i] : i \in 1..NumIds}

\* the bytes of the salt
SaltBytes == 4 * SaltWords

\* outcomes of randomBytes for an identifier: IdBytes bytes, the last one n
RandomIdBytes(n) == [i \in 1..IdBytes |-> IF i = IdBytes THEN n ELSE 0]

\* outcomes of randomBytes for a salt: SaltBytes bytes
RandomSaltBytes(n) == [i \in 1..SaltBytes |-> (n * i) % 256]

\* generateRandom256BitString, for the random bytes given
generateRandom256BitString(bytes) == BytesToBinary(bytes)

\* random256BitHexString, for the random bytes given
random256BitHexString(bytes) == BytesToHex(bytes)

\* the random bytes drawNFromSet may see: one outcome more than padding
\* needs at most; 3 is the first identifier of HexIdPool
RandomIdOutcomes == {RandomIdBytes(n) : n \in 0..(3 * MaxRHat)}

\* the random identifiers drawNFromSet may draw
RandomIdPool == {generateRandom256BitString(b) : b \in RandomIdOutcomes}

\* the salts constructBFC may draw
SaltPool == {generateRandom256BitString(RandomSaltBytes(n)) : n \in {0, 77}}

(***************************************************************************)
(* BloomFilter.                                                            *)
(***************************************************************************)
\* Math.ceil(a / b) for integers a >= 0, b > 0
CeilDiv(a, b) == (a + b - 1) \div b

\* new BloomFilter(m, 1): Math.ceil(m / 32) zero words
NewBloomFilter(m) == [m |-> m, bits |-> [i \in 1..CeilDiv(m, 32) |-> {}]]

\* setBit(pos): bits[floor(pos / 32)] |= 1 << (pos % 32)
setBit(f, pos) ==
    LET bucketPos == pos \div 32
        bitPos == pos % 32
    IN  [f EXCEPT !.bits[bucketPos + 1] = @ \cup {bitPos}]

\* getBit(pos): a word past the end of the array reads undefined, and
\* undefined & mask is 0
getBit(f, pos) ==
    LET bucketPos == pos \div 32
        bitPos == pos % 32
    IN  /\ bucketPos + 1 <= Len(f.bits)
        /\ bitPos \in f.bits[bucketPos + 1]

\* getHashPositions for k = 1: value % m, where value is the digest's first
\* window; value % 0 is NaN, shown here as -1
getHashPositions(f, value) == IF f.m = 0 THEN -1 ELSE value % f.m

\* add(element), given the digest value of element
BloomAdd(f, value) == setBit(f, getHashPositions(f, value))

\* test(element), given the digest value of element; getBit(NaN) is false
BloomTest(f, value) ==
    /\ f.m # 0
    /\ getBit(f, getHashPositions(f, value))

RECURSIVE AddAll(_, _, _)
\* includedSet.forEach(id => currentFilter.add(...)), hv the digest values
AddAll(f, ids, hv) ==
    IF ids = {} THEN f
    ELSE LET id == CHOOSE x \in ids : TRUE
         IN  AddAll(BloomAdd(f, hv[id]), ids \ {id}, hv)

(***************************************************************************)
(* The state.                                                              *)
(***************************************************************************)
VARIABLES
    pc,           \* where the program is
    V0, R0,       \* the sets the caller passed: hex identifiers
    rHat,         \* the padding target the caller passed
    validIds,     \* constructBFC's validIds after convertSetToBinary
    revokedIds,   \* constructBFC's revokedIds after convertSetToBinary
    drawn,        \* drawNFromSet's i
    salt,         \* the salt, a binary string
    includedSet, excludedSet, cascadeLevel,
    filter,       \* the layers: a sequence of BloomFilter
    sha,          \* digest values of the strings hashed so far
    outcome,      \* how constructBFC ended: "none", "returned" ([filter,
                  \* salt]), "returnedEmpty" ([[], "0"]), "RangeError"
    queried,      \* the value isInBFC was asked for
    answer,       \* and what it answered
    serialized,   \* what toDataHexString returned
    wire,         \* the string handed to fromDataHexString
    tamper,       \* what was done to serialized to get wire
    parsed        \* what fromDataHexString made of wire

buildVars == <<V0, R0, rHat, validIds, revokedIds, drawn, includedSet,
               excludedSet, cascadeLevel, sha, outcome, queried, answer>>

hexVars == <<serialized, wire, tamper, parsed>>

vars == <<pc, filter, salt, buildVars, hexVars>>

\* id + cascadeLevel.toString(2).padStart(8, "0") + salt
HashInput(id, level, s) == id \o LevelTag(level) \o s

\* Math.ceil of sizeInBit = -|I| * ln(p) / (ln 2)^2 with p = sqrt(0.5)/2 at
\* level 1 and 0.5 below: -ln(pa)/(ln 2)^2 = 2.164042..., -ln(pb)/(ln 2)^2 =
\* 1.442695...
SizeInBit(n, level) ==
    IF level = 1 THEN CeilDiv(n * 2164043, 1000000)
    ELSE CeilDiv(n * 1442695, 1000000)

\* neededR and neededS: computed from the sizes of the sets as passed
neededR == rHat - Cardinality(V0)
neededS == 2 * rHat - Cardinality(R0)

\* the digest values sha holds, extended by ext for strings not hashed yet
Digest(ext) == sha @@ ext

\* the strings not hashed before among the hash inputs of ids at level
NewInputs(ids, level, s) ==
    {HashInput(id, level, s) : id \in ids} \ DOMAIN sha

\* isInBFC's answer when layer cascadeLevel reports absent
MissAnswerOdd(level) == level % 2 = 1
MissAnswer(level) == level % 2 = 0

\* isInBFC's answer when every layer reports present
AllPresentAnswerEven(level) == level % 2 = 0
AllPresentAnswer(level) == ~(level % 2 = 0)

RECURSIVE isInBFCFrom(_, _, _, _, _)
\* isInBFC's loop from layer i on (1-based); h holds the digest values
isInBFCFrom(id, bfc, s, h, i) ==
    IF i > Len(bfc) THEN AllPresentAnswer(Len(bfc))
    ELSE IF ~BloomTest(bfc[i], h[HashInput(id, i, s)]) THEN MissAnswer(i)
    ELSE isInBFCFrom(id, bfc, s, h, i + 1)

\* isInBFC(value, bfc, salt)
isInBFC(value, bfc, s, h) == isInBFCFrom(hexToBinary(value), bfc, s, h, 1)

\* isInBFC's loop goes on to the next layer when the layer tested reports
\* present; it returns otherwise
ProbeNextAlways(present) == TRUE
ProbeNext(present) == present

RECURSIVE Probed(_, _, _, _, _)
\* the strings isInBFC's loop hands to test from layer i on (1-based)
Probed(id, bfc, s, h, i) ==
    IF i > Len(bfc) THEN {}
    ELSE {HashInput(id, i, s)} \cup
         (IF ProbeNext(BloomTest(bfc[i], h[HashInput(id, i, s)]))
          THEN Probed(id, bfc, s, h, i + 1) ELSE {})

\* the variables of the serialization, before any of it
HexIdle ==
    /\ serialized = <<>>
    /\ wire = <<>>
    /\ tamper = "none"
    /\ parsed = [done |-> FALSE]

Init ==
    /\ pc = "start"
    /\ V0 \in SUBSET HexIdPool
    /\ R0 \in SUBSET HexIdPool
    /\ rHat \in 0..MaxRHat
    /\ validIds = {}
    /\ revokedIds = {}
    /\ drawn = 0
    /\ salt = <<>>
    /\ includedSet = {}
    /\ excludedSet = {}
    /\ cascadeLevel = 0
    /\ filter = <<>>
    /\ sha = [key \in {} |-> 0]
    /\ outcome = "none"
    /\ queried = <<>>
    /\ answer = FALSE
    /\ HexIdle

\* constructBFC lines 33-43: the size check, then convertSetToBinary
CheckRequirements ==
    /\ pc = "start"
    /\ IF Cardinality(V0) > rHat \/ Cardinality(R0) > 2 * rHat
       THEN /\ pc' = "failed"
            /\ filter' = <<>>
            /\ salt' = <<"0">>
            /\ outcome' = "returnedEmpty"
            /\ UNCHANGED <<validIds, revokedIds>>
       ELSE /\ pc' = "padValid"
            /\ validIds' = convertSetToBinary(V0)
            /\ revokedIds' = convertSetToBinary(R0)
            /\ UNCHANGED <<filter, salt, outcome>>
    /\ UNCHANGED <<V0, R0, rHat, drawn, includedSet, excludedSet,
                   cascadeLevel, sha, queried, answer, hexVars>>

\* drawNFromSet's test of a random id: in neither set
FreshInValid(randomId) == randomId \notin validIds
Fresh(randomId) == randomId \notin validIds /\ randomId \notin revokedIds

\* one iteration of drawNFromSet(validIds, revokedIds, neededR, true)
DrawValid ==
    /\ pc = "padValid"
    /\ drawn < neededR
    /\ \E randomId \in RandomIdPool :
          IF Fresh(randomId)
          THEN /\ validIds' = validIds \cup {randomId}
               /\ drawn' = drawn + 1
          ELSE UNCHANGED <<validIds, drawn>>
    /\ UNCHANGED <<pc, V0, R0, rHat, revokedIds, salt, includedSet,
                   excludedSet, cascadeLevel, filter, sha, outcome, queried,
                   answer, hexVars>>

\* drawNFromSet(..., neededR, true) returns: its loop test fails
EndDrawValid ==
    /\ pc = "padValid"
    /\ ~(drawn < neededR)
    /\ pc' = "padRevoked"
    /\ drawn' = 0
    /\ UNCHANGED <<V0, R0, rHat, validIds, revokedIds, salt, includedSet,
                   excludedSet, cascadeLevel, filter, sha, outcome, queried,
                   answer, hexVars>>

\* one iteration of drawNFromSet(validIds, revokedIds, neededS, false)
DrawRevoked ==
    /\ pc = "padRevoked"
    /\ drawn < neededS
    /\ \E randomId \in RandomIdPool :
          IF Fresh(randomId)
          THEN /\ revokedIds' = revokedIds \cup {randomId}
               /\ drawn' = drawn + 1
          ELSE UNCHANGED <<revokedIds, drawn>>
    /\ UNCHANGED <<pc, V0, R0, rHat, validIds, salt, includedSet,
                   excludedSet, cascadeLevel, filter, sha, outcome, queried,
                   answer, hexVars>>

\* drawNFromSet(..., neededS, false) returns; constructBFC lines 48-56: the
\* salt is drawn and the loop's variables are set
StartLayering ==
    /\ pc = "padRevoked"
    /\ ~(drawn < neededS)
    /\ \E s \in SaltPool : salt' = s
    /\ includedSet' = validIds
    /\ excludedSet' = revokedIds
    /\ filter' = <<>>
    /\ cascadeLevel' = 1
    /\ pc' = "loop"
    /\ UNCHANGED <<V0, R0, rHat, validIds, revokedIds, drawn, sha, outcome,
                   queried, answer, hexVars>>

\* the filter of one iteration: new BloomFilter(sizeInBit, 1), then every id
\* of the included set added
LayerFilterEmpty(h) ==
    NewBloomFilter(SizeInBit(Cardinality(includedSet), cascadeLevel))
LayerFilter(h) ==
    AddAll(NewBloomFilter(SizeInBit(Cardinality(includedSet), cascadeLevel)),
           includedSet,
           [id \in includedSet |-> h[HashInput(id, cascadeLevel, salt)]])

\* the excluded ids the filter of this iteration reports present
FalsePositivesNone(currentFilter, h) == {}
FalsePositives(currentFilter, h) ==
    {id \in excludedSet :
        BloomTest(currentFilter, h[HashInput(id, cascadeLevel, salt)])}

\* the sets the next iteration starts from: excludedSet = includedSet;
\* includedSet = falsePositives
SwapSetsKeepExcluded(falsePositives) ==
    /\ excludedSet' = excludedSet
    /\ includedSet' = falsePositives
SwapSets(falsePositives) ==
    /\ excludedSet' = includedSet
    /\ includedSet' = falsePositives

\* one iteration of the while loop, constructBFC lines 57-81
Layer ==
    /\ pc = "loop"
    /\ includedSet # {}
    /\ cascadeLevel <= MaxLevel
    /\ \E ext \in [NewInputs(includedSet \cup excludedSet, cascadeLevel, salt)
                    -> 0..(HashRange - 1)] :
          LET h == Digest(ext)
              currentFilter == LayerFilter(h)
          IN  /\ sha' = h
              /\ filter' = Append(filter, currentFilter)
              /\ SwapSets(FalsePositives(currentFilter, h))
    /\ cascadeLevel' = cascadeLevel + 1
    /\ UNCHANGED <<pc, V0, R0, rHat, validIds, revokedIds, drawn, salt,
                   outcome, queried, answer, hexVars>>

\* the level after `level` past MaxLevel, where a level stands for the
\* levels of its parity: MaxLevel + 1, then MaxLevel + 2 and MaxLevel + 3 in
\* turns
NextLevelBeyond(level) ==
    IF level = MaxLevel + 3 THEN MaxLevel + 2 ELSE level + 1

\* one iteration of the while loop past level MaxLevel, constructBFC lines
\* 57-81: the strings hashed hold a level tag never used before, so their
\* digest values are any; the filter pushed and the digest values are not
\* kept
LayerBeyond ==
    /\ pc = "loop"
    /\ includedSet # {}
    /\ cascadeLevel > MaxLevel
    /\ \E h \in [{HashInput(id, cascadeLevel, salt) :
                        id \in includedSet \cup excludedSet}
                    -> 0..(HashRange - 1)] :
          SwapSets(FalsePositives(LayerFilter(h), h))
    /\ cascadeLevel' = NextLevelBeyond(cascadeLevel)
    /\ UNCHANGED <<pc, V0, R0, rHat, validIds, revokedIds, drawn, salt,
                   filter, sha, outcome, queried, answer, hexVars>>

\* every filter the loop pushed is in filter: the loop is not past MaxLevel
AllLayersKept == Len(filter) = cascadeLevel - 1

\* the loop test fails past level MaxLevel: return [filter, salt], of which
\* the filters of the levels 1..MaxLevel are kept
ReturnBeyond ==
    /\ pc = "loop"
    /\ includedSet = {}
    /\ ~AllLayersKept
    /\ pc' = "deep"
    /\ outcome' = "returned"
    /\ UNCHANGED <<V0, R0, rHat, validIds, revokedIds, drawn, salt,
                   includedSet, excludedSet, cascadeLevel, filter, sha,
                   queried, answer, hexVars>>

\* the loop test fails: return [filter, salt]
Return ==
    /\ pc = "loop"
    /\ includedSet = {}
    /\ AllLayersKept
    /\ pc' = "done"
    /\ outcome' = "returned"
    /\ UNCHANGED <<V0, R0, rHat, validIds, revokedIds, drawn, salt,
                   includedSet, excludedSet, cascadeLevel, filter, sha,
                   queried, answer, hexVars>>

\* the values isInBFC is asked for: hex identifiers, those the caller may
\* hold and the hex form of those padding may have drawn
QueryPool ==
    HexIdPool \cup {random256BitHexString(b) : b \in RandomIdOutcomes}

\* the strings isInBFC may hash for value that were not hashed before
QueryInputs(value) ==
    UNION {NewInputs({hexToBinary(value)}, i, salt) : i \in 1..Len(filter)}

\* isInBFC(value, filter, salt) on what constructBFC returned; the strings it
\* hashes keep the digest values construction saw, and sha gains the digest
\* values of the strings it hashes
Has ==
    /\ pc \in {"done", "failed"}
    /\ pc' = "asked"
    /\ \E value \in QueryPool :
       \E ext \in [QueryInputs(value) -> 0..(HashRange - 1)] :
          LET h == Digest(ext)
              hashed == Probed(hexToBinary(value), filter, salt, h, 1)
          IN  /\ queried' = value
              /\ answer' = isInBFC(value, filter, salt, h)
              /\ sha' = [key \in DOMAIN sha \cup hashed |-> h[key]]
    /\ UNCHANGED <<V0, R0, rHat, validIds, revokedIds, drawn, salt,
                   includedSet, excludedSet, cascadeLevel, filter, outcome,
                   hexVars>>

Next ==
    \/ CheckRequirements
    \/ DrawValid
    \/ EndDrawValid
    \/ DrawRevoked
    \/ StartLayering
    \/ Layer
    \/ LayerBeyond
    \/ Return
    \/ ReturnBeyond
    \/ Has

Spec == Init /\ [][Next]_vars

\* constructBFC runs on: a step of it that can be taken is taken, and a
\* draw that can add an identifier in the end adds one
Construct ==
    \/ CheckRequirements
    \/ DrawValid
    \/ EndDrawValid
    \/ DrawRevoked
    \/ StartLayering
    \/ Layer
    \/ LayerBeyond
    \/ Return
    \/ ReturnBeyond

SpecLive == Spec /\ WF_vars(Construct)

(***************************************************************************)
(* Properties of construction and query.                                   *)
(***************************************************************************)
\* the caller's sets share no identifier
DisjointInputs == V0 \cap R0 = {}

\* isInBFC has answered for a cascade constructBFC built
AskedBuilt == pc = "asked" /\ outcome = "returned"

\* C1: in every cascade built from disjoint sets within the size limits,
\* isInBFC answers true for every identifier of the valid set after padding,
\* asked for by its hex form, whatever the salt and the digest values.
C1_PaddedValidAccepted ==
    (AskedBuilt /\ DisjointInputs /\ hexToBinary(queried) \in validIds)
        => answer = TRUE

\* C1 happens: a padding identifier of the valid set, asked of a cascade of
\* two layers or more, is answered true
C1_Witness ==
    /\ AskedBuilt /\ DisjointInputs
    /\ hexToBinary(queried) \in validIds \ convertSetToBinary(V0)
    /\ Len(filter) >= 2
    /\ answer = TRUE

\* C1 happens also for an identifier the caller passed that survives to
\* layer 3
C1_WitnessDeep ==
    /\ AskedBuilt /\ DisjointInputs
    /\ queried \in V0
    /\ Len(filter) >= 3
    /\ answer = TRUE

\* C2: in every cascade built from disjoint sets within the size limits,
\* isInBFC answers false for every identifier of the revoked set after
\* padding, asked for by its hex form, whatever the salt and digest values.
C2_PaddedRevokedRejected ==
    (AskedBuilt /\ DisjointInputs /\ hexToBinary(queried) \in revokedIds)
        => answer = FALSE

\* C2 happens: a revoked identifier that layer 1 reports present (the
\* cascade has a second layer holding it) is answered false
C2_Witness ==
    /\ AskedBuilt /\ DisjointInputs
    /\ hexToBinary(queried) \in revokedIds
    /\ Len(filter) >= 2
    /\ BloomTest(filter[1], sha[HashInput(hexToBinary(queried), 1, salt)])
    /\ answer = FALSE

\* the caller's sets break a size limit
TooLarge == Cardinality(V0) > rHat \/ Cardinality(R0) > 2 * rHat

\* C6: constructBFC ends with a RangeError, and returns nothing, whenever
\* |V| > rHat or |R| > 2 * rHat.
C6_RangeErrorRaised ==
    (TooLarge /\ pc # "start") => outcome = "RangeError"

\* C7, the sets: when the layering loop starts the valid set has exactly
\* rHat and the revoked set exactly 2 * rHat identifiers, and they are
\* disjoint when the caller's sets are
C7_SizesAtLoopStart ==
    (pc = "loop" /\ cascadeLevel = 1) =>
        /\ includedSet = validIds /\ excludedSet = revokedIds
        /\ Cardinality(validIds) = rHat
        /\ Cardinality(revokedIds) = 2 * rHat
        /\ DisjointInputs => validIds \cap revokedIds = {}

\* C7, the draws: an identifier padding adds to one set was in neither set
C7_DrawnAbsent ==
    pc \in {"padValid", "padRevoked"} =>
        \A id \in (validIds' \ validIds) \cup (revokedIds' \ revokedIds) :
            id \notin validIds /\ id \notin revokedIds

SingleValid == Cardinality(V0) = 1 /\ R0 = {} /\ rHat = 1

\* C10 as claimed: V = {a}, R = {}, rHat = 1 always gives depth exactly 1
\* and has(a) = true.
C10_DepthExactlyOne ==
    (SingleValid /\ pc \in {"done", "asked"}) =>
        /\ Len(filter) = 1
        /\ (pc = "asked" /\ queried \in V0) => answer = TRUE

\* the revoked identifiers layer 1 reports present
LayerOneFalsePositives ==
    {id \in revokedIds : BloomTest(filter[1], sha[HashInput(id, 1, salt)])}

\* C10 amended: V = {a}, R = {}, rHat = 1 gives a cascade of depth at least
\* 1 with has(a) = true; the depth is 1 exactly when neither of the two
\* padding identifiers of the revoked set is a false positive of layer 1.
C10_DepthAtLeastOne ==
    (SingleValid /\ pc \in {"done", "asked"}) =>
        /\ Len(filter) >= 1
        /\ Len(filter) = 1 <=> LayerOneFalsePositives = {}
        /\ (pc = "asked" /\ queried \in V0) => answer = TRUE

\* C10 happens: the single valid identifier is asked of a cascade of depth 2
C10_Witness ==
    /\ SingleValid /\ pc = "asked" /\ outcome = "returned"
    /\ queried \in V0
    /\ Len(filter) = 2
    /\ answer = TRUE

\* the levels of the cascade at which the string of the value queried has
\* been hashed
HashedLevels ==
    {L \in 1..Len(filter) :
        HashInput(hexToBinary(queried), L, salt) \in DOMAIN sha}

\* layer L reports the value queried present
ReportsPresent(L) ==
    BloomTest(filter[L], sha[HashInput(hexToBinary(queried), L, salt)])

\* the first level whose layer reports the value queried absent, 0 if none
FirstMiss ==
    IF \E L \in HashedLevels : ~ReportsPresent(L)
    THEN CHOOSE L \in HashedLevels :
            /\ ~ReportsPresent(L)
            /\ \A K \in HashedLevels : ~ReportsPresent(K) => L <= K
    ELSE 0

\* C11: isInBFC's answer is the parity rule: with a first layer L reporting
\* the value absent it is (L is even); with every layer reporting it present
\* it is (n is odd), so false for zero layers.  isInBFC tests the layers in
\* order and none after the first miss.
C11_ParityRule ==
    pc = "asked" =>
        /\ FirstMiss # 0 =>
              /\ answer = (FirstMiss % 2 = 0)
              /\ HashedLevels = 1..FirstMiss
        /\ FirstMiss = 0 =>
              /\ answer = (Len(filter) % 2 = 1)
              /\ HashedLevels = 1..Len(filter)
        /\ Len(filter) = 0 => answer = FALSE

\* C11 happens: a value construction never hashed is asked of a cascade of
\* three layers, the second reports it absent: true, the third not tested
C11_Witness ==
    /\ AskedBuilt
    /\ hexToBinary(queried) \notin validIds \cup revokedIds
    /\ Len(filter) = 3
    /\ FirstMiss = 2
    /\ answer = TRUE

\* C11 happens also for zero layers: what constructBFC returns for sets
\* beyond the size limits answers false
C11_WitnessEmpty ==
    /\ pc = "asked" /\ outcome = "returnedEmpty"
    /\ filter = <<>>
    /\ answer = FALSE

\* layer L reports id present when probed with the level tag of L and the
\* salt
LayerReports(L, id) == BloomTest(filter[L], sha[HashInput(id, L, salt)])

\* after an iteration of the loop excludedSet is the included set the layer
\* just built was built from
C12_BuiltFromPresent ==
    (pc = "loop" /\ cascadeLevel >= 2 /\ AllLayersKept) =>
        \A id \in excludedSet : LayerReports(cascadeLevel - 1, id)

LayerStep == pc = "loop" /\ cascadeLevel' # cascadeLevel

\* C13 as claimed: from the second layer on, the false-positive set an
\* iteration computes is a strict subset of the included set of the layer
\* before (the excluded set of the iteration), here for disjoint inputs.
C13_StrictSubset ==
    [][(LayerStep /\ cascadeLevel >= 2 /\ DisjointInputs) =>
            /\ includedSet' \subseteq excludedSet
            /\ includedSet' # excludedSet]_vars

\* C13 amended: at every layer the false-positive set an iteration computes
\* is a subset, not always a strict one, of the iteration's excluded set,
\* and the excluded set of the next iteration is this iteration's included
\* set: from the second layer on the false positives are among the included
\* set of the layer before, and may be all of it.
C13_Subset ==
    [][LayerStep =>
            /\ includedSet' \subseteq excludedSet
            /\ excludedSet' = includedSet]_vars

\* C13 happens: from disjoint inputs, layer 2 reports every identifier of
\* the included set of layer 1, the rHat padded valid ones, present: the
\* false-positive set of layer 2 is that whole set
C13_Witness ==
    /\ pc = "loop" /\ cascadeLevel = 3
    /\ DisjointInputs
    /\ rHat = MaxRHat
    /\ includedSet = validIds
    /\ excludedSet \subseteq revokedIds
    /\ excludedSet # {}

\* the identifiers the caller passed in both sets
SharedIds == convertSetToBinary(V0 \cap R0)

\* C14: for every input that passes the size check constructBFC's loop
\* ends: the included set becomes empty and a cascade of finitely many
\* layers is returned.  Here for the inputs that pass the check and hold an
\* identifier in both sets.
C14_Terminates ==
    (pc = "start" /\ ~TooLarge /\ ~DisjointInputs) ~> (outcome = "returned")

\* why: an identifier passed in both sets is in the included and in the
\* excluded set at the start of every iteration, so the loop test never
\* fails
C14_SharedKept ==
    pc = "loop" =>
        /\ SharedIds \subseteq includedSet \cap excludedSet
        /\ SharedIds # {} => includedSet # {}

\* an iteration of the layering loop is about to start
IterationStarts == pc = "loop" /\ includedSet # {}

\* the included set is among the padded set of its level's role, the
\* excluded set among the other padded set
RolesByLevel ==
    IF cascadeLevel % 2 = 1
    THEN includedSet \subseteq validIds /\ excludedSet \subseteq revokedIds
    ELSE includedSet \subseteq revokedIds /\ excludedSet \subseteq validIds

\* C16: at the start of every iteration of the layering loop the included
\* and the excluded set are disjoint, the included set is among the padded
\* valid set at an odd level and among the padded revoked set at an even
\* one, and the excluded set among the other one.
C16_DisjointRoles ==
    IterationStarts =>
        /\ includedSet \cap excludedSet = {}
        /\ RolesByLevel

\* what holds of it: the roles for every input that passes the size check,
\* the disjointness for the inputs that share no identifier
C16_RolesAndDisjointInputs ==
    IterationStarts =>
        /\ RolesByLevel
        /\ DisjointInputs => includedSet \cap excludedSet = {}

(***************************************************************************)
(* Buffers and the serialization.                                          *)
(***************************************************************************)
\* the cascades of the serialization have 0..MaxLayers layers
MaxLayers == 2
\* 0..MaxZeros bytes 0x00 are appended to a serialization
MaxZeros == 16

Min(a, b) == IF a <= b THEN a ELSE b

RECURSIVE ParseInt2(_)
\* parseInt(byte, 2) of a string of binary digits
ParseInt2(s) ==
    IF s = <<>> THEN 0
    ELSE 2 * ParseInt2(SubSeq(s, 1, Len(s) - 1))
         + (IF s[Len(s)] = "1" THEN 1 ELSE 0)

\* binaryStringToBuffer: padded at the start to whole bytes, 8 digits a byte
binaryStringToBuffer(binaryString) ==
    LET paddedBinaryString ==
            PadStart(binaryString, CeilDiv(Len(binaryString), 8) * 8, "0")
    IN  [i \in 1..(Len(paddedBinaryString) \div 8) |->
            ParseInt2(SubSeq(paddedBinaryString, 8 * (i - 1) + 1, 8 * i))]

\* Buffer.writeUInt32BE(n, 0) on Buffer.alloc(4)
writeUInt32BE(n) ==
    <<(n \div 16777216) % 256, (n \div 65536) % 256, (n \div 256) % 256,
      n % 256>>

\* Buffer.readUInt32BE(offset), offset counted from 0
readUInt32BE(buffer, offset) ==
    buffer[offset + 1] * 16777216 + buffer[offset + 2] * 65536
    + buffer[offset + 3] * 256 + buffer[offset + 4]

RECURSIVE ByteOfBits(_, _)
\* the byte whose bit k is set iff base + k is a one-bit of word, bits k..7
ByteOfBits(word, k) ==
    IF k > 7 THEN 0
    ELSE (IF k \in word THEN 2 ^ k ELSE 0) + ByteOfBits(word, k + 1)

\* the 4 bytes of an Int32Array word in memory, least significant first
WordToBytesBigEndian(word) ==
    [j \in 1..4 |-> ByteOfBits({b - 8 * (4 - j) : b \in word}, 0)]
WordToBytes(word) ==
    [j \in 1..4 |-> ByteOfBits({b - 8 * (j - 1) : b \in word}, 0)]

RECURSIVE BucketsToBuffer(_)
\* Buffer.from(filter.buckets.buffer, byteOffset, byteLength)
BucketsToBuffer(bits) ==
    IF bits = <<>> THEN <<>>
    ELSE WordToBytes(Head(bits)) \o BucketsToBuffer(Tail(bits))

\* the Int32Array word 4 bytes of memory hold
BytesToWord(bytes) ==
    {8 * (j - 1) + k : j \in 1..4, k \in 0..7} \cap
    {b \in 0..31 : (bytes[(b \div 8) + 1] \div (2 ^ (b % 8))) % 2 = 1}

\* new Int32Array(buffer, byteOffset, length) over the bytes of content
BufferToBuckets(content, length) ==
    [i \in 1..length |-> BytesToWord(SubSeq(content, 4 * (i - 1) + 1, 4 * i))]

\* the value of a hex digit, -1 for any other character
HexValue(char) ==
    CASE char = "0" -> 0 [] char = "1" -> 1 [] char = "2" -> 2
      [] char = "3" -> 3 [] char = "4" -> 4 [] char = "5" -> 5
      [] char = "6" -> 6 [] char = "7" -> 7 [] char = "8" -> 8
      [] char = "9" -> 9
      [] char \in {"a", "A"} -> 10 [] char \in {"b", "B"} -> 11
      [] char \in {"c", "C"} -> 12 [] char \in {"d", "D"} -> 13
      [] char \in {"e", "E"} -> 14 [] char \in {"f", "F"} -> 15
      [] OTHER -> -1

RECURSIVE BufferFromHex(_)
\* Buffer.from(string, "hex"): two digits a byte, ending at the first pair
\* that is not two hex digits or at a last single character
BufferFromHex(s) ==
    IF Len(s) < 2 \/ HexValue(s[1]) < 0 \/ HexValue(s[2]) < 0 THEN <<>>
    ELSE <<16 * HexValue(s[1]) + HexValue(s[2])>>
         \o BufferFromHex(SubSeq(s, 3, Len(s)))

\* String.prototype.slice(2)
Slice2(s) == SubSeq(s, 3, Len(s))

\* one layer of toDataHexString: the byte length of the words, the size m,
\* both as 4 bytes big-endian, then the words
SerializeFilterNoLength(f) == writeUInt32BE(f.m) \o BucketsToBuffer(f.bits)
SerializeFilter(f) ==
    LET buffer == BucketsToBuffer(f.bits)
    IN  writeUInt32BE(Len(buffer)) \o writeUInt32BE(f.m) \o buffer

RECURSIVE SerializeCascade(_)
\* Buffer.concat(bfc[0].map(...))
SerializeCascade(bfc) ==
    IF bfc = <<>> THEN <<>>
    ELSE SerializeFilter(Head(bfc)) \o SerializeCascade(Tail(bfc))

\* toDataHexString([bfc, salt])
toDataHexString(bfc, s) ==
    <<"0", "x">> \o
    BytesToHex(binaryStringToBuffer(s) \o SerializeCascade(bfc))

RECURSIVE ReadFilters(_, _, _)
\* the while loop of fromDataHexString from startIndex on, bloomFilters the
\* filters read so far.  readUInt32BE throws a RangeError when fewer than 4
\* bytes remain; subarray ends at the end of the buffer; the Int32Array
\* constructor throws a RangeError for a byteOffset that is no multiple of 4
\* (a Buffer made from a string starts at a multiple of 8) and cuts a
\* fractional length down
ReadFilters(buffer, startIndex, bloomFilters) ==
    IF ~(startIndex < Len(buffer))
    THEN [threw |-> FALSE, bfc |-> bloomFilters]
    ELSE IF startIndex + 8 > Len(buffer) \/ (startIndex + 8) % 4 # 0
    THEN [threw |-> TRUE, bfc |-> <<>>]
    ELSE LET length == readUInt32BE(buffer, startIndex)
             m == readUInt32BE(buffer, startIndex + 4)
             filterContent ==
                 SubSeq(buffer, startIndex + 9,
                        Min(startIndex + 8 + length, Len(buffer)))
             currentFilter ==
                 [m |-> m,
                  bits |-> BufferToBuckets(filterContent,
                                           Len(filterContent) \div 4)]
         IN  ReadFilters(buffer, startIndex + 8 + length,
                         Append(bloomFilters, currentFilter))

\* fromDataHexString(serialized): done, whether it threw, and the
\* [bloomFilters, salt] it returned
fromDataHexString(str) ==
    LET buffer == BufferFromHex(Slice2(str))
        saltBuffer == SubSeq(buffer, 1, Min(SaltBytes, Len(buffer)))
        read == ReadFilters(buffer, SaltBytes, <<>>)
    IN  [done |-> TRUE, threw |-> read.threw, bfc |-> read.bfc,
         salt |-> IF read.threw THEN <<>> ELSE BytesToBinary(saltBuffer)]

\* the filters layer `level` of a cascade may be: sized for n identifiers,
\* with 1..n bits set among the first, bit 31 and the last
LayerPool(level) ==
    UNION {
        LET m == SizeInBit(n, level)
        IN  {AddAll(NewBloomFilter(m), ps, [p \in ps |-> p]) :
                ps \in {q \in SUBSET ({0, 31, m - 1} \cap 0..(m - 1)) :
                            q # {} /\ Cardinality(q) <= n}}
        : n \in IF level = 1 THEN {1, 15} ELSE {1, 23}}

\* the cascades constructBFC may have returned, up to MaxLayers layers
CascadePool ==
    UNION {{c \in [1..n -> UNION {LayerPool(l) : l \in 1..2}] :
                \A l \in 1..n : c[l] \in LayerPool(l)} : n \in 0..MaxLayers}

InitHex ==
    /\ pc = "cascade"
    /\ filter \in CascadePool
    /\ salt \in SaltPool
    /\ V0 = {} /\ R0 = {} /\ rHat = 0
    /\ validIds = {} /\ revokedIds = {}
    /\ drawn = 0
    /\ includedSet = {} /\ excludedSet = {}
    /\ cascadeLevel = 0
    /\ sha = [key \in {} |-> 0]
    /\ outcome = "returned"
    /\ queried = <<>>
    /\ answer = FALSE
    /\ HexIdle

\* toDataHexString([filter, salt])
ToHex ==
    /\ pc = "cascade"
    /\ pc' = "serialized"
    /\ serialized' = toDataHexString(filter, salt)
    /\ UNCHANGED <<filter, salt, buildVars, wire, tamper, parsed>>

\* the caller hands fromDataHexString the serialization with `what` done
Hand(what, str) ==
    /\ pc = "serialized"
    /\ pc' = "handed"
    /\ tamper' = what
    /\ wire' = str
    /\ UNCHANGED <<filter, salt, buildVars, serialized, parsed>>

\* ... as it is
HandIntact == Hand("intact", serialized)

\* ... with k bytes 0x00 appended
HandZeros ==
    \E k \in 1..MaxZeros : Hand("zeros", serialized \o Repeat("0", 2 * k))

\* ... without its "0x"
HandNoPrefix == Hand("noPrefix", Slice2(serialized))

\* ... without its last hex digit: an odd number of digits
HandOddLength ==
    Hand("oddLength", SubSeq(serialized, 1, Len(serialized) - 1))

\* ... with one digit replaced by a character that is no hex digit
HandNonHex ==
    \E i \in 3..Len(serialized) :
        Hand("nonHex", [serialized EXCEPT ![i] = "g"])

\* ... cut to fewer than SaltBytes bytes
HandShortSalt ==
    \E n \in 0..(SaltBytes - 1) :
        Hand("shortSalt", SubSeq(serialized, 1, 2 + 2 * n))

\* ... cut inside the words of its last layer
HandCutLayer ==
    /\ filter # <<>>
    /\ \E n \in 1..(4 * Len(filter[Len(filter)].bits)) :
          Hand("cutLayer", SubSeq(serialized, 1, Len(serialized) - 2 * n))

\* fromDataHexString(wire)
FromHex ==
    /\ pc = "handed"
    /\ pc' = "parsed"
    /\ parsed' = fromDataHexString(wire)
    /\ UNCHANGED <<filter, salt, buildVars, serialized, wire, tamper>>

NextHex ==
    \/ ToHex
    \/ HandIntact
    \/ HandZeros
    \/ HandNoPrefix
    \/ HandOddLength
    \/ HandNonHex
    \/ HandShortSalt
    \/ HandCutLayer
    \/ FromHex

SpecHex == InitHex /\ [][NextHex]_vars

(***************************************************************************)
(* Properties of the serialization.                                        *)
(***************************************************************************)
\* fromDataHexString has returned or thrown for a serialization handed over
\* with `what` done to it
Parsed(what) == pc = "parsed" /\ tamper = what

\* the cascade fromDataHexString returned is the cascade serialized: the
\* same salt, depth, and per layer the same m and words
SameCascade ==
    /\ parsed.salt = salt
    /\ Len(parsed.bfc) = Len(filter)
    /\ \A i \in 1..Len(filter) :
          /\ parsed.bfc[i].m = filter[i].m
          /\ parsed.bfc[i].bits = filter[i].bits

\* C3: fromDataHexString(toDataHexString(C)) returns a cascade equal to C:
\* the same salt, the same depth, and per layer the same m and bit words.
C3_RoundTrip == Parsed("intact") => (~parsed.threw /\ SameCascade)

\* C3 happens: a cascade of two layers, the first of two words with bit 31
\* of word 0 and a bit of word 1 set, under a salt that is not zero
C3_Witness ==
    /\ Parsed("intact")
    /\ Len(filter) = 2
    /\ Len(filter[1].bits) = 2
    /\ 31 \in filter[1].bits[1]
    /\ filter[1].bits[2] # {}
    /\ "1" \in {salt[i] : i \in 1..Len(salt)}
    /\ ~parsed.threw
    /\ parsed.bfc = filter

\* the strings isInBFC may hash for value in a cascade [bfc, s]
HashInputsOf(value, bfc, s) ==
    {HashInput(hexToBinary(value), i, s) : i \in 1..Len(bfc)}

\* isInBFC answers alike for the cascade serialized and the one returned,
\* for every value and all digest values
SameAnswers ==
    \A value \in HexIdPool :
    \A h \in [HashInputsOf(value, filter, salt) \cup
              HashInputsOf(value, parsed.bfc, parsed.salt)
                -> 0..(HashRange - 1)] :
        isInBFC(value, parsed.bfc, parsed.salt, h)
            = isInBFC(value, filter, salt, h)

\* C4: for every number of bytes 0x00 appended to toDataHexString(C),
\* fromDataHexString returns a cascade that answers every query as C does.
C4_ZerosTolerated == Parsed("zeros") => (~parsed.threw /\ SameAnswers)

\* C5: when zero bytes follow the last layer, a cascade fromDataHexString
\* returns has no empty layer: it has the depth, the salt and the words of
\* the cascade serialized.
C5_NoEmptyLayer == (Parsed("zeros") /\ ~parsed.threw) => SameCascade

\* what the caller did to the serialization makes it malformed
Malformed ==
    tamper \in {"noPrefix", "oddLength", "nonHex", "shortSalt", "cutLayer"}

\* C8: fromDataHexString fails, returning no cascade, for every input
\* without the 0x prefix, of odd length or with a character that is no hex
\* digit, with fewer than 32 bytes, or with a layer longer than what is left.
C8_MalformedRejected == (pc = "parsed" /\ Malformed) => parsed.threw

\* the bytes a serialization holds after "0x"
SerializedBytes == BufferFromHex(Slice2(serialized))

\* the bytes of the words of a filter of m bits
WordBytes(m) == 4 * CeilDiv(m, 32)

RECURSIVE ClaimedOffset(_)
\* where layer i starts when a layer is m and the words
ClaimedOffset(i) ==
    IF i = 1 THEN SaltBytes
    ELSE ClaimedOffset(i - 1) + 4 + WordBytes(filter[i - 1].m)

RECURSIVE LayerOffset(_)
\* where layer i starts when a layer is the byte length, m and the words
LayerOffset(i) ==
    IF i = 1 THEN SaltBytes
    ELSE LayerOffset(i - 1) + 8 + WordBytes(filter[i - 1].m)

\* bit p of the filter is bit p % 8 of byte p \div 8 of the bytes from `at`
WordsAt(f, at) ==
    \A p \in 0..(8 * WordBytes(f.m) - 1) :
        getBit(f, p) <=>
            (SerializedBytes[at + (p \div 8) + 1] \div (2 ^ (p % 8))) % 2 = 1

\* the serialization is "0x", then hex digits two a byte, and its first
\* SaltBytes bytes are the salt
SaltFirst ==
    /\ SubSeq(serialized, 1, 2) = <<"0", "x">>
    /\ Len(serialized) = 2 + 2 * Len(SerializedBytes)
    /\ Len(SerializedBytes) >= SaltBytes
    /\ BytesToBinary(SubSeq(SerializedBytes, 1, SaltBytes)) = salt

\* C9 as claimed: toDataHexString gives "0x", the salt and per layer m as 4
\* bytes big-endian and the ceil(m/32) words, nothing else: 32 + the sum of
\* 4 + 4 * ceil(m/32) bytes.
C9_SizeThenWords ==
    pc = "serialized" =>
        /\ SaltFirst
        /\ Len(SerializedBytes) = ClaimedOffset(Len(filter) + 1)
        /\ \A i \in 1..Len(filter) :
              /\ readUInt32BE(SerializedBytes, ClaimedOffset(i)) = filter[i].m
              /\ WordsAt(filter[i], ClaimedOffset(i) + 4)

\* C9 amended: toDataHexString gives "0x", the salt and per layer the byte
\* length 4 * ceil(m/32) of the words as 4 bytes big-endian, m as 4 bytes
\* big-endian and the ceil(m/32) words, least significant byte first:
\* 32 + the sum of 8 + 4 * ceil(m/32) bytes.
C9_LengthSizeThenWords ==
    pc = "serialized" =>
        /\ SaltFirst
        /\ Len(SerializedBytes) = LayerOffset(Len(filter) + 1)
        /\ \A i \in 1..Len(filter) :
              /\ readUInt32BE(SerializedBytes, LayerOffset(i))
                    = WordBytes(filter[i].m)
              /\ readUInt32BE(SerializedBytes, LayerOffset(i) + 4)
                    = filter[i].m
              /\ WordsAt(filter[i], LayerOffset(i) + 8)

\* C9 happens: two layers, one of them of two words, are serialized
C9_Witness ==
    /\ pc = "serialized"
    /\ Len(filter) = 2
    /\ Len(filter[2].bits) = 2
    /\ filter[2].bits[2] # {}
    /\ Len(SerializedBytes) = SaltBytes + 8 + WordBytes(filter[1].m) + 16

\* the invariant of a BloomFilter: ceil(m/32) words, and no bit set at an
\* index of m or more
BitsBelowM(f) ==
    /\ Len(f.bits) = CeilDiv(f.m, 32)
    /\ \A i \in 1..Len(f.bits) :
          \A b \in f.bits[i] : 32 * (i - 1) + b < f.m

\* C15: every BloomFilter that the constructor and add calls, or the
\* assignment of buckets in fromDataHexString, have made has ceil(m/32)
\* words and no bit set at an index of m or more.  Here for the filters
\* fromDataHexString returns.
C15_BitsBelowM ==
    (pc = "parsed" /\ ~parsed.threw) =>
        \A i \in 1..Len(parsed.bfc) : BitsBelowM(parsed.bfc[i])

\* the filters constructBFC makes with the constructor and add keep the
\* invariant
C15_BuiltBitsBelowM ==
    \A i \in 1..Len(filter) : BitsBelowM(filter[i])
=============================================================================
